---- MODULE Spec2Model ----
(***************************************************************************)
(* Keyboard-shortcut registry, resolution and key-down dispatch of         *)
(* src/app/modules/gui.cpp.                                                *)
(*                                                                         *)
(* Pointers are modelled as follows: a Shortcut* is the 1-based position   *)
(* of the binding in the vector `shortcuts` (0 is the null pointer; the    *)
(* vector only grows, so a position names the same object for ever); an    *)
(* Accelerator* is the position of the binding that owns it; a Command*    *)
(* is the command's name and NULL is the string "NULL".                    *)
(***************************************************************************)
EXTENDS Integers, Sequences, FiniteSets, TLC

VARIABLES
  shortcuts,     \* std::vector<Shortcut*>* shortcuts, in registration order
  currentTool,   \* UIContext::instance()->settings()->getCurrentTool()
  visibleTools,  \* tools for which ToolBar::isToolVisible() is true
  windows,       \* Manager::getChildren(), top window first
  doc,           \* active document: "none", "nomask" or "mask" (mask visible)
  keyArray,      \* live keyboard state read by checkFromAllegroKeyArray()
  reg,           \* the last registration call, its arguments and result
  disp,          \* the last key-down message and what its dispatch did
  probe,         \* the last is_pressed / is_pressed_from_key_array call
  query,         \* the last lookup or resolution call and its result
  initialized    \* init_module_gui() has run and exit_module_gui() has not

vars == <<shortcuts, currentTool, visibleTools, windows, doc, keyArray,
          reg, disp, probe, query, initialized>>

NULL == "NULL"

----------------------------------------------------------------------------
(* Bounds of the model *)

\* largest registry explored by SpecReg and SpecPress
MaxRegs == 2
\* largest registry explored by Spec
MaxBindings == 3
\* largest registry explored by SpecTool
MaxShortcuts == 3
\* largest registry explored by SpecQuick
MaxQuick == 3
\* largest registry explored by SpecQuery
MaxQuery == 2
\* largest registry explored by SpecLife
MaxLife == 2
\* largest registry explored by SpecName
MaxNames == 2

----------------------------------------------------------------------------
(* Collaborators: commands, parameters, tools, accelerators, windows *)

\* CommandsModule: the commands that exist, by name
CommandTable == [NewFile |-> "cmd:NewFile", Undo |-> "cmd:Undo"]

\* CommandsModule::instance()->getCommandByName(): NULL for an unknown name
getCommandByName(command_name) ==
  IF command_name \in DOMAIN CommandTable THEN CommandTable[command_name] ELSE NULL

\* Params values; a Params* argument may also be NULL
EmptyParams == "{}"
ParamsP1 == "{format=png}"

\* params ? params->clone() : new Params
CloneOrNew(params) == IF params = NULL THEN EmptyParams ELSE params

\* the toolbox, in ToolIterator order
ToolBoxOrder == <<"marquee", "pencil", "eraser">>
Tools == {ToolBoxOrder[i] : i \in 1..Len(ToolBoxOrder)}

\* tool->getInk(0)->isSelection()
isSelectionInk(tool) == tool = "marquee"

\* Accelerator::addKeysFromString: the chord a shortcut string denotes
ParseChord(str) ==
  CASE str = "Ctrl+N" -> [modifiers |-> {"ctrl"}, scancode |-> "N"]
    [] str = "B"      -> [modifiers |-> {},       scancode |-> "B"]
    [] str = "Ctrl+B" -> [modifiers |-> {"ctrl"}, scancode |-> "B"]
    [] OTHER          -> [modifiers |-> {},       scancode |-> "none"]

\* Accelerator::check(modifiers, scancode, unicodeChar)
AccelCheck(accel, msg) ==
  \E k \in accel : k.modifiers = msg.modifiers /\ k.scancode = msg.scancode

\* Accelerator::checkFromAllegroKeyArray()
AccelCheckFromKeyArray(accel) ==
  \E k \in accel : k.modifiers = keyArray.modifiers /\ k.scancode \in keyArray.keys

MainWindow == [id |-> "main",   foreground |-> FALSE, desktop |-> TRUE]
ModalDialog == [id |-> "dialog", foreground |-> TRUE,  desktop |-> FALSE]
PopupWindow == [id |-> "popup",  foreground |-> FALSE, desktop |-> FALSE]

\* child == App::instance()->getMainWindow()
isMainWindow(w) == w.id = "main"

----------------------------------------------------------------------------
(* Shortcut *)

\* Shortcut::Shortcut(type)
NewShortcut(type) ==
  [type |-> type, accel |-> {}, command |-> NULL, keycontext |-> "Any",
   tool |-> NULL, action |-> "", params |-> NULL]

\* Shortcut::add_shortcut
add_shortcut(s, shortcut_string) ==
  [s EXCEPT !.accel = @ \cup {ParseChord(shortcut_string)}]

\* get_current_keycontext() without the doc->isMaskVisible() test
get_current_keycontext_WithoutMask ==
  IF doc # "none" /\ isSelectionInk(currentTool)
  THEN "Selection" ELSE "Normal"

\* get_current_keycontext()
get_current_keycontext ==
  IF doc # "none" /\ doc = "mask" /\ isSelectionInk(currentTool)
  THEN "Selection" ELSE "Normal"

\* for (Shortcut* shortcut : *shortcuts) if (Test) return shortcut; return NULL;
\* where hits are the positions at which the loop's test succeeds
FirstShortcut(hits) ==
  IF hits = {} THEN 0 ELSE CHOOSE i \in hits : \A j \in hits : i <= j

\* get_keyboard_shortcut_for_command
get_keyboard_shortcut_for_command(command_name, params) ==
  LET command == getCommandByName(command_name)
      Test(s) == /\ s.type = "ExecuteCommand"
                 /\ s.command = command
                 /\ \/ (params = NULL /\ s.params = EmptyParams)
                    \/ (params # NULL /\ s.params = params)
  IN IF command = NULL THEN 0
     ELSE FirstShortcut({i \in 1..Len(shortcuts) : Test(shortcuts[i])})

\* get_keyboard_shortcut_for_tool
get_keyboard_shortcut_for_tool(tool) ==
  LET Test(s) == s.type = "ChangeTool" /\ s.tool = tool
  IN FirstShortcut({i \in 1..Len(shortcuts) : Test(shortcuts[i])})

\* get_keyboard_shortcut_for_quicktool
get_keyboard_shortcut_for_quicktool(tool) ==
  LET Test(s) == s.type = "EditorQuicktool" /\ s.tool = tool
  IN FirstShortcut({i \in 1..Len(shortcuts) : Test(shortcuts[i])})

\* get_keyboard_shortcut_for_spriteeditor without the test of the action
get_keyboard_shortcut_for_spriteeditor_AnyAction(action_name) ==
  LET Test(s) == s.type = "SpriteEditor"
  IN FirstShortcut({i \in 1..Len(shortcuts) : Test(shortcuts[i])})

\* get_keyboard_shortcut_for_spriteeditor
get_keyboard_shortcut_for_spriteeditor(action_name) ==
  LET Test(s) == s.type = "SpriteEditor" /\ s.action = action_name
  IN FirstShortcut({i \in 1..Len(shortcuts) : Test(shortcuts[i])})

\* is_pressed without the key-context filter
is_pressed_IgnoringContext(s, msg) == AccelCheck(s.accel, msg)

\* Shortcut::is_pressed(msg)
is_pressed(s, msg) ==
  LET res == AccelCheck(s.accel, msg)
  IN IF res /\ s.keycontext # "Any" /\ s.keycontext # get_current_keycontext
     THEN FALSE
     ELSE res

\* Shortcut::is_pressed_from_key_array()
is_pressed_from_key_array(s) ==
  LET res == AccelCheckFromKeyArray(s.accel)
  IN IF res /\ s.keycontext # "Any" /\ s.keycontext # get_current_keycontext
     THEN FALSE
     ELSE res

----------------------------------------------------------------------------
(* Logs of the last call of each kind *)

NoMsg == [modifiers |-> {}, scancode |-> "none"]

NoReg == [kind |-> "none", id |-> "", params |-> NULL, keycontext |-> "Any",
          chord |-> "", ret |-> 0, before |-> <<>>]

NoDisp == [op |-> "none", msg |-> NoMsg, prevTool |-> NULL, scanned |-> {},
           hit |-> 0, acts |-> <<>>, consumed |-> FALSE]

NoProbe == [mode |-> "none", idx |-> 0, msg |-> NoMsg, res |-> FALSE]

\* an Accelerator* that is NULL
NullAccel == [null |-> TRUE, chords |-> {}]

NoQuery == [op |-> "none", id |-> "", params |-> NULL, msg |-> NoMsg,
            ret |-> FALSE, accel |-> NullAccel, command |-> NULL, outparams |-> NULL,
            tool |-> NULL]

----------------------------------------------------------------------------
(* Registration *)

\* the registration step with the new binding put in front of the vector
RegisterIn_PushFront(found, created, shortcut_string) ==
  LET list == IF found = 0 THEN <<created>> \o shortcuts ELSE shortcuts
      idx  == IF found = 0 THEN 1 ELSE found
  IN [list |-> [list EXCEPT ![idx] = add_shortcut(@, shortcut_string)],
      ret  |-> idx]

\* the vector after "if (!shortcut) { ...; shortcuts->push_back(shortcut); }
\* shortcut->add_shortcut(shortcut_string);" and the accelerator returned
RegisterIn(found, created, shortcut_string) ==
  LET list == IF found = 0 THEN Append(shortcuts, created) ELSE shortcuts
      idx  == IF found = 0 THEN Len(list) ELSE found
  IN [list |-> [list EXCEPT ![idx] = add_shortcut(@, shortcut_string)],
      ret  |-> idx]

\* add_keyboard_shortcut_to_execute_command
add_keyboard_shortcut_to_execute_command(shortcut_string, command_name, params, keyContext) ==
  LET found   == get_keyboard_shortcut_for_command(command_name, params)
      created == [NewShortcut("ExecuteCommand") EXCEPT
                    !.command = getCommandByName(command_name),
                    !.params = CloneOrNew(params),
                    !.keycontext = keyContext]
      r == RegisterIn(found, created, shortcut_string)
  IN /\ shortcuts' = r.list
     /\ reg' = [kind |-> "ExecuteCommand", id |-> command_name, params |-> params,
                keycontext |-> keyContext, chord |-> shortcut_string,
                ret |-> r.ret, before |-> shortcuts]
     /\ disp' = NoDisp
     /\ probe' = NoProbe
     /\ query' = NoQuery
     /\ UNCHANGED <<initialized, currentTool, visibleTools, windows, doc, keyArray>>

\* add_keyboard_shortcut_to_change_tool
add_keyboard_shortcut_to_change_tool(shortcut_string, tool) ==
  LET found   == get_keyboard_shortcut_for_tool(tool)
      created == [NewShortcut("ChangeTool") EXCEPT !.tool = tool]
      r == RegisterIn(found, created, shortcut_string)
  IN /\ shortcuts' = r.list
     /\ reg' = [kind |-> "ChangeTool", id |-> tool, params |-> NULL,
                keycontext |-> "Any", chord |-> shortcut_string,
                ret |-> r.ret, before |-> shortcuts]
     /\ disp' = NoDisp
     /\ probe' = NoProbe
     /\ query' = NoQuery
     /\ UNCHANGED <<initialized, currentTool, visibleTools, windows, doc, keyArray>>

\* add_keyboard_shortcut_to_quicktool
add_keyboard_shortcut_to_quicktool(shortcut_string, tool) ==
  LET found   == get_keyboard_shortcut_for_quicktool(tool)
      created == [NewShortcut("EditorQuicktool") EXCEPT !.tool = tool]
      r == RegisterIn(found, created, shortcut_string)
  IN /\ shortcuts' = r.list
     /\ reg' = [kind |-> "EditorQuicktool", id |-> tool, params |-> NULL,
                keycontext |-> "Any", chord |-> shortcut_string,
                ret |-> r.ret, before |-> shortcuts]
     /\ disp' = NoDisp
     /\ probe' = NoProbe
     /\ query' = NoQuery
     /\ UNCHANGED <<initialized, currentTool, visibleTools, windows, doc, keyArray>>

\* add_keyboard_shortcut_to_spriteeditor
add_keyboard_shortcut_to_spriteeditor(shortcut_string, action_name) ==
  LET found   == get_keyboard_shortcut_for_spriteeditor(action_name)
      created == [NewShortcut("SpriteEditor") EXCEPT !.action = action_name]
      r == RegisterIn(found, created, shortcut_string)
  IN /\ shortcuts' = r.list
     /\ reg' = [kind |-> "SpriteEditor", id |-> action_name, params |-> NULL,
                keycontext |-> "Any", chord |-> shortcut_string,
                ret |-> r.ret, before |-> shortcuts]
     /\ disp' = NoDisp
     /\ probe' = NoProbe
     /\ query' = NoQuery
     /\ UNCHANGED <<initialized, currentTool, visibleTools, windows, doc, keyArray>>

----------------------------------------------------------------------------
(* Key-down dispatch: CustomizedGuiManager::onProcessMessage, kKeyDownMessage *)

\* the tools collected in `possibles`, in toolbox order
Possibles(msg) ==
  LET Pressed(t) == LET k == get_keyboard_shortcut_for_tool(t)
                    IN k # 0 /\ is_pressed(shortcuts[k], msg)
  IN SelectSeq(ToolBoxOrder, Pressed)

\* the smallest element of a non-empty set of positions
FirstOf(S) == CHOOSE i \in S : \A j \in S : i <= j

\* the tie-break without the isToolVisible() test
SelectThisTool_IgnoringVisibility(i, msg) ==
  LET possibles == Possibles(msg)
      n == Len(possibles)
      preferred == {k \in 1..n : possibles[k] # currentTool}
      current == {k \in 1..n : possibles[k] = currentTool}
  IN IF n >= 2
     THEN IF preferred # {} THEN possibles[FirstOf(preferred)]
          ELSE IF current # {} THEN possibles[(FirstOf(current) % n) + 1]
          ELSE shortcuts[i].tool
     ELSE shortcuts[i].tool

\* the tie-break without the "possibles[i] != current_tool" test
SelectThisTool_AllowingCurrent(i, msg) ==
  LET possibles == Possibles(msg)
      n == Len(possibles)
      preferred == {k \in 1..n : possibles[k] \in visibleTools}
      current == {k \in 1..n : possibles[k] = currentTool}
  IN IF n >= 2
     THEN IF preferred # {} THEN possibles[FirstOf(preferred)]
          ELSE IF current # {} THEN possibles[(FirstOf(current) % n) + 1]
          ELSE shortcuts[i].tool
     ELSE shortcuts[i].tool

\* the tie-break starting from "select_this_tool = possibles[0]" instead of
\* "select_this_tool = shortcut->tool"
SelectThisTool_FromPossibles(i, msg) ==
  LET possibles == Possibles(msg)
      n == Len(possibles)
      preferred == {k \in 1..n : possibles[k] # currentTool
                                 /\ possibles[k] \in visibleTools}
      current == {k \in 1..n : possibles[k] = currentTool}
  IN IF n >= 2
     THEN IF preferred # {} THEN possibles[FirstOf(preferred)]
          ELSE IF current # {} THEN possibles[(FirstOf(current) % n) + 1]
          ELSE possibles[1]
     ELSE shortcuts[i].tool

\* the tie-break taking "the next tool" from the toolbox instead of from
\* possibles
SelectThisTool_NextInToolbox(i, msg) ==
  LET possibles == Possibles(msg)
      n == Len(possibles)
      preferred == {k \in 1..n : possibles[k] # currentTool
                                 /\ possibles[k] \in visibleTools}
      current == {k \in 1..Len(ToolBoxOrder) : ToolBoxOrder[k] = currentTool}
  IN IF n >= 2
     THEN IF preferred # {} THEN possibles[FirstOf(preferred)]
          ELSE IF currentTool \in {possibles[k] : k \in 1..n}
          THEN ToolBoxOrder[(FirstOf(current) % Len(ToolBoxOrder)) + 1]
          ELSE shortcuts[i].tool
     ELSE shortcuts[i].tool

\* the tie-break with "possibles[i]" for "possibles[(i+1) % possibles.size()]"
SelectThisTool_NoAdvance(i, msg) ==
  LET possibles == Possibles(msg)
      n == Len(possibles)
      preferred == {k \in 1..n : possibles[k] # currentTool
                                 /\ possibles[k] \in visibleTools}
      current == {k \in 1..n : possibles[k] = currentTool}
  IN IF n >= 2
     THEN IF preferred # {} THEN possibles[FirstOf(preferred)]
          ELSE IF current # {} THEN possibles[FirstOf(current)]
          ELSE shortcuts[i].tool
     ELSE shortcuts[i].tool

\* case Shortcut::Type::ChangeTool: the tool handed to ToolBar::selectTool
SelectThisTool(i, msg) ==
  LET possibles == Possibles(msg)
      n == Len(possibles)
      preferred == {k \in 1..n : possibles[k] # currentTool
                                 /\ possibles[k] \in visibleTools}
      current == {k \in 1..n : possibles[k] = currentTool}
  IN IF n >= 2
     THEN IF preferred # {} THEN possibles[FirstOf(preferred)]
          ELSE IF current # {} THEN possibles[(FirstOf(current) % n) + 1]
          ELSE shortcuts[i].tool
     ELSE shortcuts[i].tool

\* the walk without "if (child->isForeground()) break;"
MainWindowRunning_SkipsForeground(j) ==
  \E k \in j..Len(windows) : windows[k].desktop /\ isMainWindow(windows[k])

\* case Shortcut::Type::ExecuteCommand: the walk over getChildren() from child j
RECURSIVE MainWindowRunning(_)
MainWindowRunning(j) ==
  IF j > Len(windows) THEN FALSE
  ELSE IF windows[j].foreground THEN FALSE
  ELSE IF windows[j].desktop /\ isMainWindow(windows[j]) THEN TRUE
  ELSE MainWindowRunning(j + 1)

\* the switch with "return true" after the window walk of ExecuteCommand
\* instead of "break"
HandleShortcut_ConsumingDropped(i, msg) ==
  LET s == shortcuts[i]
  IN CASE s.type = "ChangeTool" ->
            [acts |-> <<[kind |-> "selectTool", tool |-> SelectThisTool(i, msg),
                         command |-> NULL, params |-> NULL]>>,
             ret |-> TRUE]
       [] s.type = "ExecuteCommand" ->
            IF MainWindowRunning(1)
            THEN [acts |-> <<[kind |-> "executeCommand", tool |-> NULL,
                              command |-> s.command, params |-> s.params]>>,
                  ret |-> TRUE]
            ELSE [acts |-> <<>>, ret |-> TRUE]
       [] OTHER -> [acts |-> <<>>, ret |-> FALSE]

\* switch (shortcut->type): what is done for the pressed shortcut i, and
\* whether onProcessMessage returns true from inside the switch
HandleShortcut(i, msg) ==
  LET s == shortcuts[i]
  IN CASE s.type = "ChangeTool" ->
            [acts |-> <<[kind |-> "selectTool", tool |-> SelectThisTool(i, msg),
                         command |-> NULL, params |-> NULL]>>,
             ret |-> TRUE]
       [] s.type = "ExecuteCommand" ->
            IF MainWindowRunning(1)
            THEN [acts |-> <<[kind |-> "executeCommand", tool |-> NULL,
                              command |-> s.command, params |-> s.params]>>,
                  ret |-> TRUE]
            ELSE [acts |-> <<>>, ret |-> FALSE]
       [] OTHER -> [acts |-> <<>>, ret |-> FALSE]

\* the scan with neither "return true" nor "break": every pressed binding is handled
RECURSIVE ScanShortcuts_NoReturn(_, _)
ScanShortcuts_NoReturn(i, msg) ==
  IF i > Len(shortcuts)
  THEN [scanned |-> {}, hit |-> 0, acts |-> <<>>, ret |-> FALSE]
  ELSE LET r == ScanShortcuts_NoReturn(i + 1, msg)
       IN IF is_pressed(shortcuts[i], msg)
          THEN LET h == HandleShortcut(i, msg)
               IN [scanned |-> r.scanned \cup {i}, hit |-> i,
                   acts |-> h.acts \o r.acts, ret |-> h.ret \/ r.ret]
          ELSE [r EXCEPT !.scanned = @ \cup {i}]

\* the scan without the "break" after the switch: a hit whose handling does
\* not return lets the scan go on
RECURSIVE ScanShortcuts_NoBreak(_, _)
ScanShortcuts_NoBreak(i, msg) ==
  IF i > Len(shortcuts)
  THEN [scanned |-> {}, hit |-> 0, acts |-> <<>>, ret |-> FALSE]
  ELSE IF is_pressed(shortcuts[i], msg) /\ HandleShortcut(i, msg).ret
  THEN [scanned |-> {i}, hit |-> i, acts |-> HandleShortcut(i, msg).acts, ret |-> TRUE]
  ELSE LET r == ScanShortcuts_NoBreak(i + 1, msg)
       IN [r EXCEPT !.scanned = @ \cup {i},
                    !.hit = IF is_pressed(shortcuts[i], msg) THEN i ELSE @]

\* for (Shortcut* shortcut : *shortcuts) if (shortcut->is_pressed(msg)) {...; break;}
\* from position i on
RECURSIVE ScanShortcuts(_, _)
ScanShortcuts(i, msg) ==
  IF i > Len(shortcuts)
  THEN [scanned |-> {}, hit |-> 0, acts |-> <<>>, ret |-> FALSE]
  ELSE IF is_pressed(shortcuts[i], msg)
  THEN LET h == HandleShortcut(i, msg)
       IN [scanned |-> {i}, hit |-> i, acts |-> h.acts, ret |-> h.ret]
  ELSE LET r == ScanShortcuts(i + 1, msg)
       IN [r EXCEPT !.scanned = @ \cup {i}]

\* the guard with "toplevel_window == getMainWindow()" for "!="
TopIsForeground_WrongWindow ==
  /\ windows # <<>>
  /\ isMainWindow(windows[1])
  /\ windows[1].foreground

\* "If there is a foreground window as top level..."
TopIsForeground ==
  /\ windows # <<>>
  /\ ~isMainWindow(windows[1])
  /\ windows[1].foreground

\* case kKeyDownMessage
ProcessKeyDown(msg) ==
  IF TopIsForeground
  THEN [scanned |-> {}, hit |-> 0, acts |-> <<>>, ret |-> FALSE]
  ELSE ScanShortcuts(1, msg)

\* ToolBar::selectTool: the tool becomes the active tool
ToolAfter(acts, tool) ==
  LET sel == {k \in 1..Len(acts) : acts[k].kind = "selectTool"}
  IN IF sel = {} THEN tool
     ELSE acts[CHOOSE k \in sel : \A j \in sel : j <= k].tool

\* a key-down message is handed to onProcessMessage
KeyDown(msg) ==
  LET r == ProcessKeyDown(msg)
  IN /\ disp' = [op |-> "keydown", msg |-> msg, prevTool |-> currentTool,
                 scanned |-> r.scanned, hit |-> r.hit, acts |-> r.acts,
                 consumed |-> r.ret]
     /\ currentTool' = ToolAfter(r.acts, currentTool)
     /\ reg' = NoReg
     /\ probe' = NoProbe
     /\ query' = NoQuery
     /\ UNCHANGED <<initialized, shortcuts, visibleTools, windows, doc, keyArray>>

\* Shortcut::is_pressed is called on binding i with a key message
IsPressed(i, msg) ==
  /\ probe' = [mode |-> "event", idx |-> i, msg |-> msg,
               res |-> is_pressed(shortcuts[i], msg)]
  /\ reg' = NoReg
  /\ disp' = NoDisp
  /\ query' = NoQuery
  /\ UNCHANGED <<initialized, shortcuts, currentTool, visibleTools, windows, doc, keyArray>>

\* Shortcut::is_pressed_from_key_array is called on binding i
IsPressedFromKeyArray(i) ==
  /\ probe' = [mode |-> "polled", idx |-> i, msg |-> NoMsg,
               res |-> is_pressed_from_key_array(shortcuts[i])]
  /\ reg' = NoReg
  /\ disp' = NoDisp
  /\ query' = NoQuery
  /\ UNCHANGED <<initialized, shortcuts, currentTool, visibleTools, windows, doc, keyArray>>

----------------------------------------------------------------------------
(* Lookups and resolution *)

\* get_command_from_key_message without the test of the binding's type
get_command_from_key_message_AnyType(msg) ==
  LET hits == {i \in 1..Len(shortcuts) : is_pressed(shortcuts[i], msg)}
      i == FirstShortcut(hits)
  IN IF i # 0
     THEN [ret |-> TRUE, command |-> shortcuts[i].command,
           params |-> shortcuts[i].params]
     ELSE [ret |-> FALSE, command |-> NULL, params |-> NULL]

\* get_command_from_key_message matching the accelerator only, without the
\* key-context filter of is_pressed
get_command_from_key_message_AnyContext(msg) ==
  LET hits == {i \in 1..Len(shortcuts) :
                 /\ shortcuts[i].type = "ExecuteCommand"
                 /\ AccelCheck(shortcuts[i].accel, msg)}
      i == FirstShortcut(hits)
  IN IF i # 0
     THEN [ret |-> TRUE, command |-> shortcuts[i].command,
           params |-> shortcuts[i].params]
     ELSE [ret |-> FALSE, command |-> NULL, params |-> NULL]

\* get_command_from_key_message(msg, &command, &params); command and params
\* are NULL when the function returns false and writes neither
get_command_from_key_message(msg) ==
  LET hits == {i \in 1..Len(shortcuts) :
                 /\ shortcuts[i].type = "ExecuteCommand"
                 /\ is_pressed(shortcuts[i], msg)}
      i == FirstShortcut(hits)
  IN IF i # 0
     THEN [ret |-> TRUE, command |-> shortcuts[i].command,
           params |-> shortcuts[i].params]
     ELSE [ret |-> FALSE, command |-> NULL, params |-> NULL]

\* "if (shortcut) return shortcut->accel; else return NULL;"
AccelOf(shortcut) ==
  IF shortcut # 0
  THEN [null |-> FALSE, chords |-> shortcuts[shortcut].accel]
  ELSE NullAccel

\* get_accel_to_execute_command
get_accel_to_execute_command(command_name, params) ==
  AccelOf(get_keyboard_shortcut_for_command(command_name, params))

\* get_accel_to_change_tool
get_accel_to_change_tool(tool) ==
  AccelOf(get_keyboard_shortcut_for_tool(tool))

\* get_accel_to_copy_selection
get_accel_to_copy_selection ==
  AccelOf(get_keyboard_shortcut_for_spriteeditor("CopySelection"))

\* get_accel_to_snap_to_grid
get_accel_to_snap_to_grid ==
  AccelOf(get_keyboard_shortcut_for_spriteeditor("SnapToGrid"))

\* get_accel_to_angle_snap
get_accel_to_angle_snap ==
  AccelOf(get_keyboard_shortcut_for_spriteeditor("AngleSnap"))

\* get_accel_to_maintain_aspect_ratio
get_accel_to_maintain_aspect_ratio ==
  AccelOf(get_keyboard_shortcut_for_spriteeditor("MaintainAspectRatio"))

\* get_accel_to_lock_axis
get_accel_to_lock_axis ==
  AccelOf(get_keyboard_shortcut_for_spriteeditor("LockAxis"))

\* get_accel_to_add_selection
get_accel_to_add_selection ==
  AccelOf(get_keyboard_shortcut_for_spriteeditor("AddSelection"))

\* get_accel_to_subtract_selection
get_accel_to_subtract_selection ==
  AccelOf(get_keyboard_shortcut_for_spriteeditor("SubtractSelection"))

\* the sprite-editor accessor that looks up the given action
get_accel_to_spriteeditor(action_name) ==
  CASE action_name = "CopySelection"       -> get_accel_to_copy_selection
    [] action_name = "SnapToGrid"          -> get_accel_to_snap_to_grid
    [] action_name = "AngleSnap"           -> get_accel_to_angle_snap
    [] action_name = "MaintainAspectRatio" -> get_accel_to_maintain_aspect_ratio
    [] action_name = "LockAxis"            -> get_accel_to_lock_axis
    [] action_name = "AddSelection"        -> get_accel_to_add_selection
    [] OTHER                               -> get_accel_to_subtract_selection

SpriteEditorActions ==
  {"CopySelection", "SnapToGrid", "AngleSnap", "MaintainAspectRatio",
   "LockAxis", "AddSelection", "SubtractSelection"}

\* the positions in the toolbox of the tools whose quick-tool binding is
\* pressed on the live keyboard
PressedQuicktools ==
  {n \in 1..Len(ToolBoxOrder) :
     LET shortcut == get_keyboard_shortcut_for_quicktool(ToolBoxOrder[n])
     IN shortcut # 0 /\ is_pressed_from_key_array(shortcuts[shortcut])}

\* get_selected_quicktool without the copy-selection test
get_selected_quicktool_NoPrecedence(tool) ==
  IF PressedQuicktools = {} THEN NULL
  ELSE ToolBoxOrder[FirstOf(PressedQuicktools)]

\* get_selected_quicktool walking the bindings instead of the toolbox
get_selected_quicktool_ByRegistration(tool) ==
  LET copyselection_accel == get_accel_to_copy_selection
      pressed == {i \in 1..Len(shortcuts) :
                    /\ shortcuts[i].type = "EditorQuicktool"
                    /\ is_pressed_from_key_array(shortcuts[i])}
  IN IF /\ tool # NULL /\ isSelectionInk(tool)
        /\ ~copyselection_accel.null
        /\ AccelCheckFromKeyArray(copyselection_accel.chords)
     THEN NULL
     ELSE IF pressed = {} THEN NULL
     ELSE shortcuts[FirstOf(pressed)].tool

\* get_selected_quicktool(currentTool); the argument may be NULL
get_selected_quicktool(tool) ==
  LET copyselection_accel == get_accel_to_copy_selection
  IN IF /\ tool # NULL /\ isSelectionInk(tool)
        /\ ~copyselection_accel.null
        /\ AccelCheckFromKeyArray(copyselection_accel.chords)
     THEN NULL
     ELSE IF PressedQuicktools = {} THEN NULL
     ELSE ToolBoxOrder[FirstOf(PressedQuicktools)]

\* the frame of a call that only reads the registry and the application
QueryFrame ==
  /\ reg' = NoReg
  /\ disp' = NoDisp
  /\ probe' = NoProbe
  /\ UNCHANGED <<initialized, shortcuts, currentTool, visibleTools, windows,
                 doc, keyArray>>

\* get_command_from_key_message is called with a key message
GetCommandFromKeyMessage(msg) ==
  LET r == get_command_from_key_message(msg)
  IN /\ query' = [NoQuery EXCEPT !.op = "get_command_from_key_message",
                                 !.msg = msg, !.ret = r.ret,
                                 !.command = r.command, !.outparams = r.params]
     /\ QueryFrame

\* get_accel_to_execute_command is called
GetAccelToExecuteCommand(command_name, params) ==
  /\ query' = [NoQuery EXCEPT !.op = "get_accel_to_execute_command",
                 !.id = command_name, !.params = params,
                 !.accel = get_accel_to_execute_command(command_name, params)]
  /\ QueryFrame

\* get_accel_to_change_tool looking the tool up by find-or-create, as the
\* registration functions do
GetAccelToChangeTool_Creating(tool) ==
  LET found == get_keyboard_shortcut_for_tool(tool)
      created == [NewShortcut("ChangeTool") EXCEPT !.tool = tool]
      list == IF found = 0 THEN Append(shortcuts, created) ELSE shortcuts
  IN /\ query' = [NoQuery EXCEPT !.op = "get_accel_to_change_tool",
                                 !.id = tool,
                                 !.accel = [null |-> FALSE, chords |-> {}]]
     /\ shortcuts' = list
     /\ reg' = NoReg
     /\ disp' = NoDisp
     /\ probe' = NoProbe
     /\ UNCHANGED <<initialized, currentTool, visibleTools, windows, doc,
                    keyArray>>

\* get_accel_to_change_tool is called
GetAccelToChangeTool(tool) ==
  /\ query' = [NoQuery EXCEPT !.op = "get_accel_to_change_tool", !.id = tool,
                              !.accel = get_accel_to_change_tool(tool)]
  /\ QueryFrame

\* one of the seven sprite-editor accessors is called
GetAccelToSpriteEditor(action_name) ==
  /\ query' = [NoQuery EXCEPT !.op = "get_accel_to_spriteeditor",
                              !.id = action_name,
                              !.accel = get_accel_to_spriteeditor(action_name)]
  /\ QueryFrame

\* get_selected_quicktool is called with the editor's current tool or NULL
GetSelectedQuicktool(tool) ==
  /\ query' = [NoQuery EXCEPT !.op = "get_selected_quicktool", !.id = tool,
                              !.tool = get_selected_quicktool(tool)]
  /\ QueryFrame

----------------------------------------------------------------------------
(* Teardown *)

\* exit_module_gui(): every Shortcut is deleted, then the vector, and
\* shortcuts becomes NULL
exit_module_gui ==
  /\ initialized
  /\ shortcuts' = <<>>
  /\ initialized' = FALSE
  /\ reg' = [NoReg EXCEPT !.kind = "exit", !.before = shortcuts]
  /\ disp' = NoDisp
  /\ probe' = NoProbe
  /\ query' = NoQuery
  /\ UNCHANGED <<currentTool, visibleTools, windows, doc, keyArray>>

----------------------------------------------------------------------------
(* The application around the shortcut engine *)

ResetLogs ==
  reg' = NoReg /\ disp' = NoDisp /\ probe' = NoProbe /\ query' = NoQuery

\* the user picks a tool in the tool bar
UserSelectsTool(tool) ==
  /\ currentTool' = tool
  /\ ResetLogs
  /\ UNCHANGED <<initialized, shortcuts, visibleTools, windows, doc, keyArray>>

\* the tool bar shows another set of tools
ToolBarShows(tools) ==
  /\ visibleTools' = tools
  /\ ResetLogs
  /\ UNCHANGED <<initialized, shortcuts, currentTool, windows, doc, keyArray>>

\* windows are opened, closed or raised
WindowsBecome(stack) ==
  /\ windows' = stack
  /\ ResetLogs
  /\ UNCHANGED <<initialized, shortcuts, currentTool, visibleTools, doc, keyArray>>

\* the active document or the visibility of its mask changes
DocumentBecomes(d) ==
  /\ doc' = d
  /\ ResetLogs
  /\ UNCHANGED <<initialized, shortcuts, currentTool, visibleTools, windows, keyArray>>

\* keys are pressed or released
KeyboardBecomes(k) ==
  /\ keyArray' = k
  /\ ResetLogs
  /\ UNCHANGED <<initialized, shortcuts, currentTool, visibleTools, windows, doc>>

----------------------------------------------------------------------------
(* Initial state: init_module_gui() has run, nothing is registered yet *)

Init ==
  /\ shortcuts = <<>>
  /\ currentTool = "pencil"
  /\ visibleTools = Tools
  /\ windows = <<MainWindow>>
  /\ doc = "none"
  /\ keyArray = [modifiers |-> {}, keys |-> {}]
  /\ reg = NoReg
  /\ disp = NoDisp
  /\ probe = NoProbe
  /\ query = NoQuery
  /\ initialized = TRUE

KeyContexts == {"Any", "Normal", "Selection"}

\* no call is in progress: the result of the last one has been dropped
Idle == reg = NoReg /\ disp = NoDisp /\ probe = NoProbe /\ query = NoQuery

\* the last call returns to the event loop and its result is dropped
Returned ==
  /\ ~Idle
  /\ ResetLogs
  /\ UNCHANGED <<initialized, shortcuts, currentTool, visibleTools, windows, doc, keyArray>>

----------------------------------------------------------------------------
(* SpecReg: the four registration operations, over known and unknown       *)
(* command names, absent, empty and non-empty parameter sets, every key    *)
(* context, every tool and two sprite-editor actions.                      *)

RegChords == {"Ctrl+N", "B"}
RegCommandNames == {"NewFile", "Bogus"}
RegParams == {NULL, EmptyParams, ParamsP1}
RegActions == {"CopySelection", "SnapToGrid"}

RegCommand ==
  /\ Idle
  /\ \E str \in RegChords, name \in RegCommandNames, params \in RegParams,
        kc \in KeyContexts :
       /\ \/ Len(shortcuts) < MaxRegs
          \/ get_keyboard_shortcut_for_command(name, params) # 0
       /\ add_keyboard_shortcut_to_execute_command(str, name, params, kc)

RegChangeTool ==
  /\ Idle
  /\ \E str \in RegChords, tool \in Tools :
       /\ \/ Len(shortcuts) < MaxRegs
          \/ get_keyboard_shortcut_for_tool(tool) # 0
       /\ add_keyboard_shortcut_to_change_tool(str, tool)

RegQuicktool ==
  /\ Idle
  /\ \E str \in RegChords, tool \in Tools :
       /\ \/ Len(shortcuts) < MaxRegs
          \/ get_keyboard_shortcut_for_quicktool(tool) # 0
       /\ add_keyboard_shortcut_to_quicktool(str, tool)

RegSpriteEditor ==
  /\ Idle
  /\ \E str \in RegChords, action \in RegActions :
       /\ \/ Len(shortcuts) < MaxRegs
          \/ get_keyboard_shortcut_for_spriteeditor(action) # 0
       /\ add_keyboard_shortcut_to_spriteeditor(str, action)

NextReg ==
  \/ RegCommand \/ RegChangeTool \/ RegQuicktool \/ RegSpriteEditor
  \/ Returned

SpecReg == Init /\ [][NextReg]_vars

----------------------------------------------------------------------------
(* Spec: key-down dispatch over command bindings with and without          *)
(* parameters and key context, one binding of each other kind sharing the  *)
(* chord "B", window stacks with and without a modal dialog, and the       *)
(* document and tool states that decide the key context.                   *)

KeyMessages ==
  {[modifiers |-> {"ctrl"}, scancode |-> "N"],
   [modifiers |-> {},       scancode |-> "B"],
   [modifiers |-> {"ctrl"}, scancode |-> "B"]}

WindowStacks ==
  {<<MainWindow>>,
   <<ModalDialog, MainWindow>>,
   <<PopupWindow, MainWindow>>,
   <<PopupWindow, ModalDialog, MainWindow>>}

AddCommand ==
  /\ Idle
  /\ \E str \in {"Ctrl+N", "B"}, params \in {NULL, ParamsP1},
        kc \in {"Any", "Selection"} :
       /\ \/ Len(shortcuts) < MaxBindings
          \/ get_keyboard_shortcut_for_command("NewFile", params) # 0
       /\ add_keyboard_shortcut_to_execute_command(str, "NewFile", params, kc)

AddChangeTool ==
  /\ Idle
  /\ /\ \/ Len(shortcuts) < MaxBindings
        \/ get_keyboard_shortcut_for_tool("pencil") # 0
     /\ add_keyboard_shortcut_to_change_tool("B", "pencil")

AddQuicktool ==
  /\ Idle
  /\ /\ \/ Len(shortcuts) < MaxBindings
        \/ get_keyboard_shortcut_for_quicktool("eraser") # 0
     /\ add_keyboard_shortcut_to_quicktool("B", "eraser")

AddSpriteEditor ==
  /\ Idle
  /\ /\ \/ Len(shortcuts) < MaxBindings
        \/ get_keyboard_shortcut_for_spriteeditor("CopySelection") # 0
     /\ add_keyboard_shortcut_to_spriteeditor("B", "CopySelection")

ChangeWindows ==
  /\ Idle
  /\ \E stack \in WindowStacks : WindowsBecome(stack)

ChangeDocument ==
  /\ Idle
  /\ \E d \in {"none", "mask"} : DocumentBecomes(d)

PickTool ==
  /\ Idle
  /\ \E tool \in {"marquee", "pencil"} : UserSelectsTool(tool)

PressKey ==
  /\ Idle
  /\ \E msg \in KeyMessages : KeyDown(msg)

Next ==
  \/ AddCommand \/ AddChangeTool \/ AddQuicktool \/ AddSpriteEditor
  \/ ChangeWindows \/ ChangeDocument \/ PickTool \/ PressKey
  \/ Returned

Spec == Init /\ [][Next]_vars

----------------------------------------------------------------------------
(* SpecTool: key-down dispatch over the tool bindings of the three tools,  *)
(* with every current tool and every set of visible tools.                 *)

ToolAddChangeTool ==
  /\ Idle
  /\ \E str \in {"Ctrl+N", "B"}, tool \in Tools :
       /\ \/ Len(shortcuts) < MaxShortcuts
          \/ get_keyboard_shortcut_for_tool(tool) # 0
       /\ add_keyboard_shortcut_to_change_tool(str, tool)

ToolAddQuicktool ==
  /\ Idle
  /\ /\ \/ Len(shortcuts) < MaxShortcuts
        \/ get_keyboard_shortcut_for_quicktool("pencil") # 0
     /\ add_keyboard_shortcut_to_quicktool("B", "pencil")

ToolBarChanges ==
  /\ Idle
  /\ \E tools \in SUBSET Tools : ToolBarShows(tools)

ToolPicked ==
  /\ Idle
  /\ \E tool \in Tools : UserSelectsTool(tool)

ToolPressKey ==
  /\ Idle
  /\ \E msg \in KeyMessages : KeyDown(msg)

NextTool ==
  \/ ToolAddChangeTool \/ ToolAddQuicktool
  \/ ToolBarChanges \/ ToolPicked \/ ToolPressKey
  \/ Returned

SpecTool == Init /\ [][NextTool]_vars

----------------------------------------------------------------------------
(* SpecPress: the two match tests of a single binding, over every key      *)
(* context of the binding and of the application, key messages and live    *)
(* keyboard states.                                                        *)

KeyArrays ==
  {[modifiers |-> m, keys |-> k] : m \in {{}, {"ctrl"}}, k \in SUBSET {"N", "B"}}

PressAddCommand ==
  /\ Idle
  /\ \E str \in {"Ctrl+N", "B"}, kc \in KeyContexts :
       /\ \/ Len(shortcuts) < MaxRegs
          \/ get_keyboard_shortcut_for_command("NewFile", NULL) # 0
       /\ add_keyboard_shortcut_to_execute_command(str, "NewFile", NULL, kc)

PressAddQuicktool ==
  /\ Idle
  /\ /\ \/ Len(shortcuts) < MaxRegs
        \/ get_keyboard_shortcut_for_quicktool("pencil") # 0
     /\ add_keyboard_shortcut_to_quicktool("B", "pencil")

PressDocument ==
  /\ Idle
  /\ \E d \in {"none", "nomask", "mask"} : DocumentBecomes(d)

PressPickTool ==
  /\ Idle
  /\ \E tool \in {"marquee", "pencil"} : UserSelectsTool(tool)

PressKeyboard ==
  /\ Idle
  /\ \E k \in KeyArrays : KeyboardBecomes(k)

PressEvent ==
  /\ Idle
  /\ \E i \in 1..Len(shortcuts), msg \in KeyMessages : IsPressed(i, msg)

PressPolled ==
  /\ Idle
  /\ \E i \in 1..Len(shortcuts) : IsPressedFromKeyArray(i)

NextPress ==
  \/ PressAddCommand \/ PressAddQuicktool
  \/ PressDocument \/ PressPickTool \/ PressKeyboard
  \/ PressEvent \/ PressPolled
  \/ Returned

SpecPress == Init /\ [][NextPress]_vars

----------------------------------------------------------------------------
(* SpecQuick: get_selected_quicktool over quick-tool bindings of the three *)
(* tools registered in any order, the CopySelection and SnapToGrid         *)
(* bindings, live keyboard states holding one or two chords, and every     *)
(* argument including NULL.                                                *)

QuickAddQuicktool ==
  /\ Idle
  /\ \E str \in {"B", "Ctrl+B"}, tool \in Tools :
       /\ \/ Len(shortcuts) < MaxQuick
          \/ get_keyboard_shortcut_for_quicktool(tool) # 0
       /\ add_keyboard_shortcut_to_quicktool(str, tool)

QuickAddSpriteEditor ==
  /\ Idle
  /\ \E str \in {"B", "Ctrl+N"}, action \in {"CopySelection", "SnapToGrid"} :
       /\ \/ Len(shortcuts) < MaxQuick
          \/ get_keyboard_shortcut_for_spriteeditor(action) # 0
       /\ add_keyboard_shortcut_to_spriteeditor(str, action)

QuickKeyboard ==
  /\ Idle
  /\ \E k \in KeyArrays : KeyboardBecomes(k)

QuickPolled ==
  /\ Idle
  /\ \E tool \in Tools \cup {NULL} : GetSelectedQuicktool(tool)

NextQuick ==
  \/ QuickAddQuicktool \/ QuickAddSpriteEditor
  \/ QuickKeyboard \/ QuickPolled
  \/ Returned

SpecQuick == Init /\ [][NextQuick]_vars

----------------------------------------------------------------------------
(* SpecQuery: every operation that reads the registry (the accessors,      *)
(* get_command_from_key_message, get_selected_quicktool, the two match     *)
(* tests and key-down dispatch) over command bindings with and without     *)
(* parameters and key context and one binding of each other kind, asked    *)
(* for registered and unregistered commands, tools and actions.            *)

QueryCommandNames == {"NewFile", "Undo", "Bogus"}

QueryKeyArrays ==
  {[modifiers |-> {}, keys |-> {}], [modifiers |-> {}, keys |-> {"B"}]}

QueryAddCommand ==
  /\ Idle
  /\ \E str \in {"Ctrl+N", "B"}, params \in {NULL, ParamsP1},
        kc \in {"Any", "Selection"} :
       /\ \/ Len(shortcuts) < MaxQuery
          \/ get_keyboard_shortcut_for_command("NewFile", params) # 0
       /\ add_keyboard_shortcut_to_execute_command(str, "NewFile", params, kc)

QueryAddChangeTool ==
  /\ Idle
  /\ /\ \/ Len(shortcuts) < MaxQuery
        \/ get_keyboard_shortcut_for_tool("pencil") # 0
     /\ add_keyboard_shortcut_to_change_tool("B", "pencil")

QueryAddQuicktool ==
  /\ Idle
  /\ /\ \/ Len(shortcuts) < MaxQuery
        \/ get_keyboard_shortcut_for_quicktool("eraser") # 0
     /\ add_keyboard_shortcut_to_quicktool("B", "eraser")

QueryAddSpriteEditor ==
  /\ Idle
  /\ /\ \/ Len(shortcuts) < MaxQuery
        \/ get_keyboard_shortcut_for_spriteeditor("CopySelection") # 0
     /\ add_keyboard_shortcut_to_spriteeditor("B", "CopySelection")

QueryWindows ==
  /\ Idle
  /\ \E stack \in {<<MainWindow>>, <<ModalDialog, MainWindow>>} :
       WindowsBecome(stack)

QueryDocument ==
  /\ Idle
  /\ \E d \in {"none", "mask"} : DocumentBecomes(d)

QueryPickTool ==
  /\ Idle
  /\ \E tool \in {"marquee", "pencil"} : UserSelectsTool(tool)

QueryKeyboard ==
  /\ Idle
  /\ \E k \in QueryKeyArrays : KeyboardBecomes(k)

QueryAccelCommand ==
  /\ Idle
  /\ \E name \in QueryCommandNames, params \in {NULL, ParamsP1} :
       GetAccelToExecuteCommand(name, params)

QueryAccelTool ==
  /\ Idle
  /\ \E tool \in Tools : GetAccelToChangeTool(tool)

QueryAccelSpriteEditor ==
  /\ Idle
  /\ \E action \in SpriteEditorActions : GetAccelToSpriteEditor(action)

QueryCommand ==
  /\ Idle
  /\ \E msg \in KeyMessages : GetCommandFromKeyMessage(msg)

QueryQuicktool ==
  /\ Idle
  /\ \E tool \in {"marquee", "pencil", NULL} : GetSelectedQuicktool(tool)

QueryEvent ==
  /\ Idle
  /\ \E i \in 1..Len(shortcuts), msg \in KeyMessages : IsPressed(i, msg)

QueryPolled ==
  /\ Idle
  /\ \E i \in 1..Len(shortcuts) : IsPressedFromKeyArray(i)

QueryPressKey ==
  /\ Idle
  /\ \E msg \in KeyMessages : KeyDown(msg)

NextQuery ==
  \/ QueryAddCommand \/ QueryAddChangeTool \/ QueryAddQuicktool
  \/ QueryAddSpriteEditor
  \/ QueryWindows \/ QueryDocument \/ QueryPickTool \/ QueryKeyboard
  \/ QueryAccelCommand \/ QueryAccelTool \/ QueryAccelSpriteEditor
  \/ QueryCommand \/ QueryQuicktool \/ QueryEvent \/ QueryPolled
  \/ QueryPressKey
  \/ Returned

SpecQuery == Init /\ [][NextQuery]_vars

----------------------------------------------------------------------------
(* SpecLife: the life of the registry from init_module_gui to              *)
(* exit_module_gui: the four registration operations as in SpecReg, made   *)
(* while the module is initialized, and the teardown.                      *)

LifeCommand ==
  /\ Idle
  /\ initialized
  /\ \E str \in RegChords, name \in RegCommandNames, params \in RegParams,
        kc \in KeyContexts :
       /\ \/ Len(shortcuts) < MaxLife
          \/ get_keyboard_shortcut_for_command(name, params) # 0
       /\ add_keyboard_shortcut_to_execute_command(str, name, params, kc)

LifeChangeTool ==
  /\ Idle
  /\ initialized
  /\ \E str \in RegChords, tool \in Tools :
       /\ \/ Len(shortcuts) < MaxLife
          \/ get_keyboard_shortcut_for_tool(tool) # 0
       /\ add_keyboard_shortcut_to_change_tool(str, tool)

LifeQuicktool ==
  /\ Idle
  /\ initialized
  /\ \E str \in RegChords, tool \in Tools :
       /\ \/ Len(shortcuts) < MaxLife
          \/ get_keyboard_shortcut_for_quicktool(tool) # 0
       /\ add_keyboard_shortcut_to_quicktool(str, tool)

LifeSpriteEditor ==
  /\ Idle
  /\ initialized
  /\ \E str \in RegChords, action \in RegActions :
       /\ \/ Len(shortcuts) < MaxLife
          \/ get_keyboard_shortcut_for_spriteeditor(action) # 0
       /\ add_keyboard_shortcut_to_spriteeditor(str, action)

LifeExit ==
  /\ Idle
  /\ exit_module_gui

NextLife ==
  \/ LifeCommand \/ LifeChangeTool \/ LifeQuicktool \/ LifeSpriteEditor
  \/ LifeExit
  \/ Returned

SpecLife == Init /\ [][NextLife]_vars

----------------------------------------------------------------------------
(* SpecName: command registration under names that resolve to a command    *)
(* and names that do not, followed by key-down dispatch and                *)
(* get_command_from_key_message on the registered chords.                  *)

NameAddCommand ==
  /\ Idle
  /\ \E str \in RegChords, name \in RegCommandNames,
        params \in {NULL, ParamsP1} :
       /\ \/ Len(shortcuts) < MaxNames
          \/ get_keyboard_shortcut_for_command(name, params) # 0
       /\ add_keyboard_shortcut_to_execute_command(str, name, params, "Any")

NameWindows ==
  /\ Idle
  /\ \E stack \in {<<MainWindow>>, <<ModalDialog, MainWindow>>} :
       WindowsBecome(stack)

NamePressKey ==
  /\ Idle
  /\ \E msg \in KeyMessages : KeyDown(msg)

NameResolve ==
  /\ Idle
  /\ \E msg \in KeyMessages : GetCommandFromKeyMessage(msg)

NextName ==
  \/ NameAddCommand \/ NameWindows \/ NamePressKey \/ NameResolve
  \/ Returned

SpecName == Init /\ [][NextName]_vars

----------------------------------------------------------------------------
(* Claims about registration *)

\* two bindings stand for the same action: same kind and same payload
SameAction(a, b) ==
  /\ a.type = b.type
  /\ CASE a.type = "ExecuteCommand" -> a.command = b.command /\ a.params = b.params
       [] a.type = "SpriteEditor"   -> a.action = b.action
       [] OTHER                     -> a.tool = b.tool

\* binding s is the one a registration call with these arguments names
BindingOfCall(s, kind, id, params) ==
  /\ s.type = kind
  /\ CASE kind = "ExecuteCommand" ->
            s.command = getCommandByName(id) /\ s.params = CloneOrNew(params)
       [] kind = "SpriteEditor" -> s.action = id
       [] OTHER -> s.tool = id

\* C1: after any sequence of registration calls the registry holds at most
\* one binding per action identity: no two bindings have the same kind and
\* the same (command, parameter set), the same tool or the same action name.
C1_OneBindingPerIdentity ==
  \A i, j \in 1..Len(shortcuts) :
    i # j => ~SameAction(shortcuts[i], shortcuts[j])

\* C2: a registration with a new chord for an action identity that already
\* has a binding leaves the registry with that single binding, returns that
\* binding's accelerator, and the accelerator matches a key event for every
\* chord it had before as well as for the chord just registered.
C2_SecondRegistrationAppends ==
  reg.kind # "none" =>
    LET same == {i \in 1..Len(reg.before) :
                   BindingOfCall(reg.before[i], reg.kind, reg.id, reg.params)}
    IN (same # {} /\ \A i \in same : ParseChord(reg.chord) \notin reg.before[i].accel) =>
         /\ Len(shortcuts) = Len(reg.before)
         /\ reg.ret \in same
         /\ \A k \in reg.before[reg.ret].accel \cup {ParseChord(reg.chord)} :
              AccelCheck(shortcuts[reg.ret].accel,
                         [modifiers |-> k.modifiers, scancode |-> k.scancode])

----------------------------------------------------------------------------
(* Claims about the match tests *)

\* C3: in the event-driven and in the polled mode a binding is reported
\* pressed exactly when its accelerator matches the input and its context is
\* Any or equals the interaction context at that moment.
C3_PressedIffMatchAndContext ==
  probe.mode # "none" =>
    LET s == shortcuts[probe.idx]
        matches == IF probe.mode = "event"
                   THEN AccelCheck(s.accel, probe.msg)
                   ELSE AccelCheckFromKeyArray(s.accel)
        context == IF doc = "mask" /\ isSelectionInk(currentTool)
                   THEN "Selection" ELSE "Normal"
    IN probe.res <=> (matches /\ (s.keycontext = "Any" \/ s.keycontext = context))

\* a Selection binding whose chord matches is tested in context Normal
C3_Witness ==
  /\ probe.mode = "event"
  /\ shortcuts[probe.idx].keycontext = "Selection"
  /\ AccelCheck(shortcuts[probe.idx].accel, probe.msg)
  /\ get_current_keycontext = "Normal"
  /\ probe.res = FALSE

----------------------------------------------------------------------------
(* Claims about key-down dispatch *)

\* the first binding, in registration order, whose event-driven match succeeds
FirstPressed(msg) ==
  LET hits == {i \in 1..Len(shortcuts) : is_pressed(shortcuts[i], msg)}
  IN IF hits = {} THEN 0 ELSE CHOOSE i \in hits : \A j \in hits : i <= j

\* going down the window stack the main desktop window comes before any
\* foreground window
MainBeforeForeground ==
  \E j \in 1..Len(windows) :
    /\ isMainWindow(windows[j]) /\ windows[j].desktop
    /\ \A k \in 1..j : ~windows[k].foreground

\* the commands executed by the last key-down
Executions == SelectSeq(disp.acts, LAMBDA a : a.kind = "executeCommand")

\* the tools selected by the last key-down
Selections == SelectSeq(disp.acts, LAMBDA a : a.kind = "selectTool")

\* C4: when the first binding hit by a key-down is an ExecuteCommand
\* binding, its command is executed, exactly once and with the binding's
\* parameter set, if and only if the main desktop window comes before any
\* foreground window in the window stack.
C4_CommandRunsIffMainWindowRunning ==
  disp.op = "keydown" =>
    LET h == FirstPressed(disp.msg)
    IN (h # 0 /\ shortcuts[h].type = "ExecuteCommand") =>
         IF MainBeforeForeground
         THEN /\ Len(Executions) = 1
              /\ Executions[1].command = shortcuts[h].command
              /\ Executions[1].params = shortcuts[h].params
         ELSE Executions = <<>>

\* a command bound with parameters runs once with the stack [mainWindow]
C4_Witness ==
  /\ disp.op = "keydown"
  /\ windows = <<MainWindow>>
  /\ FirstPressed(disp.msg) # 0
  /\ shortcuts[FirstPressed(disp.msg)].type = "ExecuteCommand"
  /\ shortcuts[FirstPressed(disp.msg)].params = ParamsP1
  /\ Len(Executions) = 1

\* C5: with a foreground window other than the main window on top, a
\* key-down evaluates no binding, executes no command, selects no tool and
\* is passed on unconsumed.
C5_ModalOnTopSuppressesShortcuts ==
  (/\ disp.op = "keydown"
   /\ windows # <<>>
   /\ windows[1].foreground
   /\ ~isMainWindow(windows[1])) =>
       /\ disp.scanned = {}
       /\ disp.acts = <<>>
       /\ disp.consumed = FALSE
       /\ currentTool = disp.prevTool

\* a key that a tool binding and a command binding match arrives under a modal dialog
C5_Witness ==
  /\ disp.op = "keydown"
  /\ windows = <<ModalDialog, MainWindow>>
  /\ \E i, j \in 1..Len(shortcuts) :
       /\ shortcuts[i].type = "ChangeTool"
       /\ shortcuts[j].type = "ExecuteCommand"
       /\ AccelCheck(shortcuts[i].accel, disp.msg)
       /\ AccelCheck(shortcuts[j].accel, disp.msg)
  /\ disp.acts = <<>>

\* C9: one key-down performs at most one command execution or tool selection.
C9_AtMostOneAction ==
  disp.op = "keydown" => Len(disp.acts) <= 1

\* a command binding and a tool binding both match and one action is done
C9_Witness ==
  /\ disp.op = "keydown"
  /\ \E i, j \in 1..Len(shortcuts) :
       /\ shortcuts[i].type = "ChangeTool"
       /\ shortcuts[j].type = "ExecuteCommand"
       /\ is_pressed(shortcuts[i], disp.msg)
       /\ is_pressed(shortcuts[j], disp.msg)
  /\ MainBeforeForeground
  /\ Len(disp.acts) = 1

\* C10: dispatch handles only the first binding in registration order whose
\* match succeeds and the scan stops there; when that binding is an
\* EditorQuicktool or SpriteEditor binding, or an ExecuteCommand binding
\* that the window stack makes ineligible, nothing is executed or selected
\* and the event is passed on unconsumed, whatever later bindings match.
C10_OnlyFirstHitIsHandled ==
  (disp.op = "keydown" /\ ~TopIsForeground) =>
    LET h == FirstPressed(disp.msg)
    IN /\ disp.hit = h
       /\ disp.scanned = (IF h = 0 THEN 1..Len(shortcuts) ELSE 1..h)
       /\ (/\ h # 0
           /\ \/ shortcuts[h].type \in {"EditorQuicktool", "SpriteEditor"}
              \/ shortcuts[h].type = "ExecuteCommand" /\ ~MainBeforeForeground) =>
              /\ disp.acts = <<>>
              /\ disp.consumed = FALSE
              /\ currentTool = disp.prevTool

\* the first hit does nothing although a later tool or command binding
\* matches the same key
C10_Witness ==
  /\ disp.op = "keydown"
  /\ ~TopIsForeground
  /\ disp.hit # 0
  /\ shortcuts[disp.hit].type \in {"EditorQuicktool", "SpriteEditor"}
  /\ \E j \in (disp.hit + 1)..Len(shortcuts) :
       /\ shortcuts[j].type \in {"ChangeTool", "ExecuteCommand"}
       /\ is_pressed(shortcuts[j], disp.msg)
  /\ MainBeforeForeground
  /\ disp.acts = <<>>

----------------------------------------------------------------------------
(* Claims about the choice among tools that share a chord *)

\* the tools, in toolbox order, that have a ChangeTool binding matching msg
Candidates(msg) ==
  SelectSeq(ToolBoxOrder,
            LAMBDA t : \E i \in 1..Len(shortcuts) :
                         /\ shortcuts[i].type = "ChangeTool"
                         /\ shortcuts[i].tool = t
                         /\ is_pressed(shortcuts[i], msg))

\* the last key-down was dispatched and its first hit is a ChangeTool binding
FirstHitIsChangeTool ==
  /\ disp.op = "keydown"
  /\ ~TopIsForeground
  /\ FirstPressed(disp.msg) # 0
  /\ shortcuts[FirstPressed(disp.msg)].type = "ChangeTool"

\* the positions of the candidates that are visible and were not the current tool
Qualifying(cands) ==
  {k \in 1..Len(cands) : cands[k] \in visibleTools /\ cands[k] # disp.prevTool}

\* C6: on a key-down whose first hit is a ChangeTool binding, with two or
\* more candidates the selected tool is the first candidate in toolbox order
\* that is visible and not the current tool, or, if there is none and the
\* current tool is candidate i, candidate (i+1) mod n; a single candidate is
\* selected.
C6_ToolTieBreak ==
  FirstHitIsChangeTool =>
    LET cands == Candidates(disp.msg)
        n == Len(cands)
        q == Qualifying(cands)
    IN /\ (n >= 2 /\ q # {}) =>
            /\ Len(Selections) = 1
            /\ Selections[1].tool = cands[CHOOSE k \in q : \A j \in q : k <= j]
       /\ (n >= 2 /\ q = {}) =>
            \A i \in 1..n :
              cands[i] = disp.prevTool =>
                /\ Len(Selections) = 1
                /\ Selections[1].tool = cands[(i % n) + 1]
       /\ n = 1 =>
            /\ Len(Selections) = 1
            /\ Selections[1].tool = cands[1]

\* marquee (current), pencil (hidden) and eraser (visible) share the chord:
\* eraser is selected
C6_Witness ==
  /\ FirstHitIsChangeTool
  /\ Candidates(disp.msg) = <<"marquee", "pencil", "eraser">>
  /\ disp.prevTool = "marquee"
  /\ "pencil" \notin visibleTools
  /\ "eraser" \in visibleTools
  /\ Len(Selections) = 1
  /\ Selections[1].tool = "eraser"
  /\ currentTool = "eraser"

\* C7: with exactly two tools, both visible, sharing the chord and one of
\* them active, a press of the chord makes the other one the active tool.
C7_TwoToolsAlternate ==
  FirstHitIsChangeTool =>
    LET cands == Candidates(disp.msg)
    IN (/\ Len(cands) = 2
        /\ cands[1] \in visibleTools
        /\ cands[2] \in visibleTools
        /\ disp.prevTool \in {cands[1], cands[2]}) =>
           /\ currentTool \in {cands[1], cands[2]}
           /\ currentTool # disp.prevTool

\* the second press: the active tool goes back to the first of the two
C7_Witness ==
  /\ FirstHitIsChangeTool
  /\ Len(Candidates(disp.msg)) = 2
  /\ \A k \in 1..2 : Candidates(disp.msg)[k] \in visibleTools
  /\ disp.prevTool = Candidates(disp.msg)[2]
  /\ currentTool = Candidates(disp.msg)[1]

\* two or more candidates, none of them visible, and the current tool not
\* among them
NoCandidateQualifies ==
  /\ FirstHitIsChangeTool
  /\ Len(Candidates(disp.msg)) >= 2
  /\ \A k \in 1..Len(Candidates(disp.msg)) :
       /\ Candidates(disp.msg)[k] \notin visibleTools
       /\ Candidates(disp.msg)[k] # disp.prevTool

\* C8 as stated: when two or more tools share the chord, none of them is
\* visible and the current tool is not one of them, no tool is selected and
\* the active tool is unchanged.
C8_NoOpWhenNoneQualifies ==
  NoCandidateQualifies =>
    /\ Selections = <<>>
    /\ currentTool = disp.prevTool

\* C8 as amended: in that case the tool of the first-hit binding, the first
\* matching ChangeTool binding in registration order, is selected and
\* becomes the active tool, and the event is consumed.
C8_FirstHitToolWhenNoneQualifies ==
  NoCandidateQualifies =>
    /\ Len(Selections) = 1
    /\ Selections[1].tool = shortcuts[FirstPressed(disp.msg)].tool
    /\ currentTool = shortcuts[FirstPressed(disp.msg)].tool
    /\ disp.consumed = TRUE

\* no candidate qualifies and the first-hit binding is not the binding of the
\* first candidate in toolbox order
C8_Witness ==
  /\ NoCandidateQualifies
  /\ shortcuts[FirstPressed(disp.msg)].tool # Candidates(disp.msg)[1]
  /\ currentTool = shortcuts[FirstPressed(disp.msg)].tool

----------------------------------------------------------------------------
(* Claims about the quick tool *)

\* the CopySelection binding exists and its chord is held on the keyboard
CopySelectionHeld ==
  \E i \in 1..Len(shortcuts) :
    /\ shortcuts[i].type = "SpriteEditor"
    /\ shortcuts[i].action = "CopySelection"
    /\ AccelCheckFromKeyArray(shortcuts[i].accel)

\* the copy-selection rule applies to a call with this argument
CopyPrecedence(tool) ==
  tool # NULL /\ isSelectionInk(tool) /\ CopySelectionHeld

\* the positions in the toolbox of the tools that have a quick-tool binding
\* whose polled match succeeds
QuickCandidates ==
  {n \in 1..Len(ToolBoxOrder) :
     \E i \in 1..Len(shortcuts) :
       /\ shortcuts[i].type = "EditorQuicktool"
       /\ shortcuts[i].tool = ToolBoxOrder[n]
       /\ is_pressed_from_key_array(shortcuts[i])}

\* C11: get_selected_quicktool returns no tool whenever its argument is a
\* tool with a selection ink and the CopySelection binding exists and matches
\* the live keyboard, whatever quick-tool chords are held at the same time.
C11_CopySelectionWins ==
  (query.op = "get_selected_quicktool" /\ CopyPrecedence(query.id))
    => query.tool = NULL

\* the rule applied while a quick-tool chord was held too
C11_Witness ==
  /\ query.op = "get_selected_quicktool"
  /\ CopyPrecedence(query.id)
  /\ QuickCandidates # {}
  /\ query.tool = NULL

\* C12: when the copy-selection rule does not apply, get_selected_quicktool
\* returns the first tool in toolbox order that has a quick-tool binding whose
\* polled match succeeds, and no tool if there is none, whatever the order in
\* which the quick-tool bindings were registered.
C12_FirstInToolboxOrder ==
  (query.op = "get_selected_quicktool" /\ ~CopyPrecedence(query.id))
    => query.tool = IF QuickCandidates = {} THEN NULL
                    ELSE ToolBoxOrder[FirstOf(QuickCandidates)]

\* two pressed quick-tool bindings were registered against toolbox order and
\* the earlier tool of the toolbox was returned
C12_Witness ==
  /\ query.op = "get_selected_quicktool"
  /\ ~CopyPrecedence(query.id)
  /\ \E i, j \in 1..Len(shortcuts), n, m \in QuickCandidates :
       /\ i < j /\ m < n
       /\ shortcuts[i].type = "EditorQuicktool"
       /\ shortcuts[j].type = "EditorQuicktool"
       /\ shortcuts[i].tool = ToolBoxOrder[n]
       /\ shortcuts[j].tool = ToolBoxOrder[m]
       /\ m = FirstOf(QuickCandidates)
       /\ query.tool = ToolBoxOrder[m]

----------------------------------------------------------------------------
(* Claims about lookups and resolution *)

\* the key context of the application, from the document and the tool
ContextNow ==
  IF doc = "mask" /\ isSelectionInk(currentTool) THEN "Selection" ELSE "Normal"

\* the ExecuteCommand bindings whose event-driven match succeeds, by position
CommandsPressed(msg) ==
  {i \in 1..Len(shortcuts) :
     /\ shortcuts[i].type = "ExecuteCommand"
     /\ AccelCheck(shortcuts[i].accel, msg)
     /\ shortcuts[i].keycontext \in {"Any", ContextNow}}

\* the last call registered a known command with context Any
RegisteredKnownWithAny ==
  /\ reg.kind = "ExecuteCommand"
  /\ reg.keycontext = "Any"
  /\ getCommandByName(reg.id) # NULL

\* resolving the chord of the last registration succeeds, and gives the
\* registered command and parameters when no earlier command binding matches
RoundTripSucceeds ==
  LET msg == ParseChord(reg.chord)
      r == get_command_from_key_message(msg)
  IN /\ r.ret
     /\ r.command # NULL
     /\ r.params # NULL
     /\ (\A i \in CommandsPressed(msg) : i >= reg.ret)
          => /\ r.command = getCommandByName(reg.id)
             /\ r.params = CloneOrNew(reg.params)

\* get_command_from_key_message returns the first ExecuteCommand binding in
\* registration order whose event-driven match succeeds
ResolvesFirstCommandPressed ==
  query.op = "get_command_from_key_message" =>
    LET hits == CommandsPressed(query.msg)
    IN /\ query.ret <=> hits # {}
       /\ query.ret => /\ query.command = shortcuts[FirstOf(hits)].command
                       /\ query.outparams = shortcuts[FirstOf(hits)].params

\* C13 as stated: after a registration of a known command with context Any,
\* resolving an event that encodes the registered chord succeeds, with the
\* registered command and parameters when no earlier command binding matches
\* the event; resolution returns the first matching ExecuteCommand binding.
C13_RoundTripAfterAnyRegistration ==
  /\ RegisteredKnownWithAny => RoundTripSucceeds
  /\ ResolvesFirstCommandPressed

\* C13, amended: the round trip holds when the binding the registration
\* returned has context Any or the current context, as it has when the call
\* created it; resolution returns the first matching ExecuteCommand binding.
C13_RoundTripWhenContextPasses ==
  /\ (/\ RegisteredKnownWithAny
      /\ shortcuts[reg.ret].keycontext \in {"Any", ContextNow})
       => RoundTripSucceeds
  /\ ResolvesFirstCommandPressed

\* a registration with parameters added a chord that an earlier binding of
\* another kind holds too, and the chord resolves to the registered command
C13_Witness ==
  /\ RegisteredKnownWithAny
  /\ reg.params = ParamsP1
  /\ shortcuts[reg.ret].keycontext = "Any"
  /\ \E i \in 1..(reg.ret - 1) :
       /\ shortcuts[i].type # "ExecuteCommand"
       /\ AccelCheck(shortcuts[i].accel, ParseChord(reg.chord))
  /\ get_command_from_key_message(ParseChord(reg.chord)) =
       [ret |-> TRUE, command |-> "cmd:NewFile", params |-> ParamsP1]

\* a binding for the identity the last accessor call asked for exists
AskedIsRegistered ==
  \E i \in 1..Len(shortcuts) :
    CASE query.op = "get_accel_to_execute_command" ->
           BindingOfCall(shortcuts[i], "ExecuteCommand", query.id, query.params)
      [] query.op = "get_accel_to_change_tool" ->
           BindingOfCall(shortcuts[i], "ChangeTool", query.id, NULL)
      [] OTHER ->
           BindingOfCall(shortcuts[i], "SpriteEditor", query.id, NULL)

\* the bindings whose event-driven match succeeds, by position
BindingsPressed(msg) ==
  {i \in 1..Len(shortcuts) :
     /\ AccelCheck(shortcuts[i].accel, msg)
     /\ shortcuts[i].keycontext \in {"Any", ContextNow}}

\* C14: an accessor asked for a command, tool or sprite-editor action that
\* has no binding returns NULL; get_command_from_key_message returns false
\* when no command binding matches the event; a key-down that no binding
\* matches executes nothing, selects nothing and is not consumed.
C14_AbsenceIsNotFound ==
  /\ (/\ query.op \in {"get_accel_to_execute_command",
                       "get_accel_to_change_tool", "get_accel_to_spriteeditor"}
      /\ ~AskedIsRegistered)
       => query.accel = NullAccel
  /\ (query.op = "get_command_from_key_message"
      /\ CommandsPressed(query.msg) = {})
       => (~query.ret /\ query.command = NULL /\ query.outparams = NULL)
  /\ (disp.op = "keydown" /\ BindingsPressed(disp.msg) = {})
       => (disp.acts = <<>> /\ ~disp.consumed /\ currentTool = disp.prevTool)

\* a sprite-editor accessor found nothing although another sprite-editor
\* action is bound
C14_Witness ==
  /\ query.op = "get_accel_to_spriteeditor"
  /\ ~AskedIsRegistered
  /\ \E i \in 1..Len(shortcuts) : shortcuts[i].type = "SpriteEditor"
  /\ query.accel = NullAccel

----------------------------------------------------------------------------
(* Claims about the interaction context *)

\* the last match test was made on a binding bound to one context, and its
\* accelerator matched, so that its result shows the context that was used
ContextObserved ==
  /\ probe.mode # "none"
  /\ shortcuts[probe.idx].keycontext # "Any"
  /\ IF probe.mode = "event"
     THEN AccelCheck(shortcuts[probe.idx].accel, probe.msg)
     ELSE AccelCheckFromKeyArray(shortcuts[probe.idx].accel)

\* the context the last match test used: the binding's own when it passed,
\* the other one when it did not
ContextUsed ==
  LET own == shortcuts[probe.idx].keycontext
  IN IF probe.res THEN own
     ELSE IF own = "Selection" THEN "Normal" ELSE "Selection"

\* C15: the context used by a resolution attempt is Selection exactly when,
\* at that moment, there is an active document whose selection mask is
\* visible and the active tool has a selection ink, and Normal otherwise; it
\* follows the document and the tool as they are at each attempt.
C15_ContextFromDocumentAndTool ==
  ContextObserved =>
    (ContextUsed = "Selection"
       <=> (doc # "none" /\ doc = "mask" /\ isSelectionInk(currentTool)))

\* a binding bound to Normal is rejected while a document with a visible mask
\* is active and the marquee tool is selected
C15_Witness ==
  /\ ContextObserved
  /\ shortcuts[probe.idx].keycontext = "Normal"
  /\ doc = "mask"
  /\ currentTool = "marquee"
  /\ probe.res = FALSE

----------------------------------------------------------------------------
(* Claims about the effect of registration on the registry *)

\* the bindings that, before the last registration, stood for the command
\* and parameter set of that call
SameCommandBefore ==
  {i \in 1..Len(reg.before) :
     BindingOfCall(reg.before[i], "ExecuteCommand", reg.id, reg.params)}

\* C16: a command registration for a (command, parameter set) that already
\* has a binding with another context returns that binding, only adds the
\* chord to it, and leaves its context, command and parameter set, and every
\* other binding, unchanged.
C16_ContextFixedAtCreation ==
  (/\ reg.kind = "ExecuteCommand"
   /\ \E i \in SameCommandBefore : reg.before[i].keycontext # reg.keycontext)
    => /\ reg.ret \in SameCommandBefore
       /\ shortcuts = [reg.before EXCEPT
                         ![reg.ret].accel = @ \cup {ParseChord(reg.chord)}]

----------------------------------------------------------------------------
(* Claims about the outcome of a key-down *)

\* C17: a key-down whose first hit is a ChangeTool binding is consumed and
\* makes exactly one tool the active tool, one of the tools whose ChangeTool
\* binding matches the event; nothing else is done.
C17_ChangeToolIsTerminal ==
  FirstHitIsChangeTool =>
    /\ disp.consumed = TRUE
    /\ Len(disp.acts) = 1
    /\ Len(Selections) = 1
    /\ \E k \in 1..Len(Candidates(disp.msg)) :
         Selections[1].tool = Candidates(disp.msg)[k]
    /\ currentTool = Selections[1].tool

\* two hidden tools share the chord and the current one is the last of them:
\* the key-down wraps around to the first, skipping the tool between them
C17_Witness ==
  /\ FirstHitIsChangeTool
  /\ Candidates(disp.msg) = <<"marquee", "eraser">>
  /\ visibleTools = {"pencil"}
  /\ disp.prevTool = "eraser"
  /\ disp.consumed = TRUE
  /\ currentTool = "marquee"

\* the first binding the event matches is an ExecuteCommand binding and,
\* going down the window stack, a foreground window comes before the main
\* window
IneligibleCommand(msg) ==
  /\ FirstPressed(msg) # 0
  /\ shortcuts[FirstPressed(msg)].type = "ExecuteCommand"
  /\ ~MainBeforeForeground

\* C18: a key-down whose first hit is an ExecuteCommand binding while a
\* foreground window comes before the main window executes nothing, is not
\* consumed, and leaves the registry and the active tool as they were.
C18_IneligibleCommandDropped ==
  [][(disp'.op = "keydown" /\ IneligibleCommand(disp'.msg))
       => /\ disp'.acts = <<>>
          /\ disp'.consumed = FALSE
          /\ shortcuts' = shortcuts
          /\ currentTool' = currentTool]_vars

\* a command chord is pressed while a popup covers a modal dialog: the scan
\* hits the command binding and drops it
C18_Witness ==
  /\ disp.op = "keydown"
  /\ windows = <<PopupWindow, ModalDialog, MainWindow>>
  /\ IneligibleCommand(disp.msg)
  /\ disp.hit = FirstPressed(disp.msg)
  /\ disp.acts = <<>>
  /\ disp.consumed = FALSE

----------------------------------------------------------------------------
(* Claims about the registry as a whole *)

\* the call that has just returned only resolves or dispatches
ReadOnlyCall ==
  \/ disp.op = "keydown"
  \/ probe.mode # "none"
  \/ query.op # "none"

\* the result the last call recorded is what the same call gives in the
\* current state
SameResultAgain ==
  /\ query.op = "get_command_from_key_message" =>
       get_command_from_key_message(query.msg) =
         [ret |-> query.ret, command |-> query.command,
          params |-> query.outparams]
  /\ query.op = "get_selected_quicktool" =>
       get_selected_quicktool(query.id) = query.tool
  /\ query.op = "get_accel_to_execute_command" =>
       get_accel_to_execute_command(query.id, query.params) = query.accel
  /\ query.op = "get_accel_to_change_tool" =>
       get_accel_to_change_tool(query.id) = query.accel
  /\ query.op = "get_accel_to_spriteeditor" =>
       get_accel_to_spriteeditor(query.id) = query.accel
  /\ probe.mode = "event" =>
       is_pressed(shortcuts[probe.idx], probe.msg) = probe.res
  /\ probe.mode = "polled" =>
       is_pressed_from_key_array(shortcuts[probe.idx]) = probe.res
  /\ (disp.op = "keydown" /\ currentTool = disp.prevTool) =>
       LET r == ProcessKeyDown(disp.msg)
       IN /\ r.hit = disp.hit
          /\ r.acts = disp.acts
          /\ r.ret = disp.consumed

\* C19: key-down dispatch, get_command_from_key_message,
\* get_selected_quicktool, the two match tests and the get_accel_* lookups
\* leave the bindings, their order, chords, contexts and payloads as they
\* were, and the same call made again in the same state gives the same
\* result.
C19_ResolutionLeavesRegistry ==
  [][ReadOnlyCall' => (shortcuts' = shortcuts /\ SameResultAgain')]_vars

\* a key-down ran a command from a registry of several bindings
C19_Witness ==
  /\ disp.op = "keydown"
  /\ Len(shortcuts) >= 2
  /\ Len(disp.acts) = 1
  /\ disp.acts[1].kind = "executeCommand"

\* registry `after` is registry `before` with at most one binding added at
\* the end and chords added to the bindings it had
GrownFrom(before, after) ==
  /\ Len(after) \in {Len(before), Len(before) + 1}
  /\ \A i \in 1..Len(before) :
       /\ after[i] = [before[i] EXCEPT !.accel = after[i].accel]
       /\ before[i].accel \subseteq after[i].accel

\* C20: while the module is initialized every step leaves each binding at
\* its position with its kind and payload, only adds chords, and adds at
\* most one binding, at the end; teardown destroys all bindings and leaves
\* no registry.
C20_AppendOnlyUntilTeardown ==
  [][/\ (initialized /\ initialized') => GrownFrom(shortcuts, shortcuts')
     /\ (initialized /\ ~initialized') => shortcuts' = <<>>
     /\ ~initialized => (~initialized' /\ shortcuts' = <<>>)]_vars

\* a registration added a second chord to the first of two bindings
C20_Witness ==
  /\ initialized
  /\ reg.kind \notin {"none", "exit"}
  /\ Len(reg.before) = 2
  /\ reg.ret = 1
  /\ reg.before[1].accel # shortcuts[1].accel
  /\ GrownFrom(reg.before, shortcuts)

----------------------------------------------------------------------------
(* Claims about the tool a shared chord selects *)

\* C21: when two or more tools share the pressed chord, the tool a
\* ChangeTool dispatch selects is never the tool that was current before the
\* key-down, whatever the visible tools and the current tool; the current
\* tool is selected again only when exactly one tool matches the chord.
C21_SharedChordLeavesCurrentTool ==
  FirstHitIsChangeTool =>
    /\ Len(Selections) = 1
    /\ Len(Candidates(disp.msg)) >= 2 =>
         (Selections[1].tool # disp.prevTool /\ currentTool # disp.prevTool)
    /\ Selections[1].tool = disp.prevTool => Len(Candidates(disp.msg)) = 1

\* the three tools share the chord, only the current one is visible: the
\* key-down moves on to a hidden tool
C21_Witness ==
  /\ FirstHitIsChangeTool
  /\ Len(Candidates(disp.msg)) = 3
  /\ visibleTools = {disp.prevTool}
  /\ Len(Selections) = 1
  /\ Selections[1].tool # disp.prevTool
  /\ currentTool = Selections[1].tool

----------------------------------------------------------------------------
(* Claims relating dispatch, resolution and registration *)

\* C22: whenever a key-down executes command c with parameter set p,
\* get_command_from_key_message for the same event, with the same registry
\* and in the same interaction context, returns true with exactly c and p.
C22_DispatchAgreesWithResolution ==
  (disp.op = "keydown" /\ Executions # <<>>) =>
    get_command_from_key_message(disp.msg) =
      [ret |-> TRUE, command |-> Executions[1].command,
       params |-> Executions[1].params]

\* the chord is bound to two commands; the first is bound to the Selection
\* context and does not match, the key-down executes the second
C22_Witness ==
  /\ disp.op = "keydown"
  /\ Len(Executions) = 1
  /\ disp.hit = 2
  /\ shortcuts[1].type = "ExecuteCommand"
  /\ shortcuts[1].keycontext = "Selection"
  /\ AccelCheck(shortcuts[1].accel, disp.msg)
  /\ Executions[1].params = shortcuts[2].params
  /\ shortcuts[2].params # shortcuts[1].params

\* C23: every ExecuteCommand binding of the registry has a command that is
\* not NULL and a parameter set that is not NULL, for every command name
\* passed to registration, so that a key-down never executes, and
\* get_command_from_key_message never returns, a NULL command.
C23_NoNullCommand ==
  /\ \A i \in 1..Len(shortcuts) :
       shortcuts[i].type = "ExecuteCommand" =>
         (shortcuts[i].command # NULL /\ shortcuts[i].params # NULL)
  /\ disp.op = "keydown" =>
       \A k \in 1..Len(Executions) : Executions[k].command # NULL
  /\ (query.op = "get_command_from_key_message" /\ query.ret) =>
       query.command # NULL

====
